---------------------------- MODULE Spec2Model ----------------------------
(***************************************************************************)
(* Model of the Simplex fire-panel monitor (gorelikserver/SmS_IoT):        *)
(* the interactive terminal (simplex_terminal.py), the point records       *)
(* (point_status.py), the points manager (points_manager.py) and the       *)
(* monitor loop with its diff engine (status_monitor.py).                  *)
(*                                                                         *)
(* Text is modelled character by character: a Python str is a sequence of  *)
(* one-character strings, so that split, strip, substring search and       *)
(* indexing are computed as the code computes them.  A log or console      *)
(* message is the sequence of its literal parts (each one multi-character  *)
(* string) and of the characters of the values interpolated into it.       *)
(***************************************************************************)
EXTENDS Naturals, Sequences, FiniteSets

(***************************************************************************)
(* Bounds of the model.                                                    *)
(***************************************************************************)
\* Largest number of rows in one status-list reply of the panel.
MaxRows == 2

(***************************************************************************)
(* Text helpers: Python str operations used by the code.                   *)
(***************************************************************************)
\* str.isspace() characters that occur on the line.
Whitespace == {" ", "\t", "\r", "\n"}

\* `pat in text` for two strs.
IsSubstring(pat, text) ==
    \E i \in 1..(Len(text) + 1) :
        /\ i + Len(pat) - 1 <= Len(text)
        /\ SubSeq(text, i, i + Len(pat) - 1) = pat

\* text.startswith(ch) for a one-character prefix.
StartsWith(text, ch) == Len(text) >= 1 /\ text[1] = ch

RECURSIVE SplitOn(_, _)
\* text.split(sep) for a one-character separator.
SplitOn(text, sep) ==
    IF \A i \in 1..Len(text) : text[i] # sep
    THEN <<text>>
    ELSE LET i == CHOOSE k \in 1..Len(text) :
                      text[k] = sep /\ \A j \in 1..(k - 1) : text[j] # sep
         IN  <<SubSeq(text, 1, i - 1)>> \o SplitOn(SubSeq(text, i + 1, Len(text)), sep)

RECURSIVE LStrip(_)
LStrip(text) ==
    IF Len(text) > 0 /\ text[1] \in Whitespace THEN LStrip(Tail(text)) ELSE text

RECURSIVE RStrip(_)
RStrip(text) ==
    IF Len(text) > 0 /\ text[Len(text)] \in Whitespace
    THEN RStrip(SubSeq(text, 1, Len(text) - 1))
    ELSE text

\* text.strip()
Strip(text) == RStrip(LStrip(text))

RECURSIVE SplitWs(_)
\* text.split(): the maximal runs of non-whitespace characters.
SplitWs(text) ==
    LET t == LStrip(text)
    IN  IF Len(t) = 0
        THEN <<>>
        ELSE LET n == IF \A i \in 1..Len(t) : t[i] \notin Whitespace
                      THEN Len(t)
                      ELSE (CHOOSE k \in 1..Len(t) :
                                t[k] \in Whitespace
                                /\ \A j \in 1..(k - 1) : t[j] \notin Whitespace) - 1
             IN  <<SubSeq(t, 1, n)>> \o SplitWs(SubSeq(t, n + 1, Len(t)))

\* text.rsplit('-0', 1)[0]: the part before the last "-0", or the whole text.
RSplitDash0(text) ==
    LET hits == {i \in 1..Len(text) : i < Len(text) /\ text[i] = "-" /\ text[i + 1] = "0"}
    IN  IF hits = {}
        THEN text
        ELSE LET i == CHOOSE k \in hits : \A j \in hits : j <= k
             IN  SubSeq(text, 1, i - 1)

RECURSIVE Repr(_)
\* repr(text) without the quotes: control characters become escape pairs.
Repr(text) ==
    IF Len(text) = 0
    THEN <<>>
    ELSE (CASE text[1] = "\n" -> <<"\\", "n">>
            [] text[1] = "\r" -> <<"\\", "r">>
            [] text[1] = "\t" -> <<"\\", "t">>
            [] OTHER -> <<text[1]>>) \o Repr(Tail(text))

RECURSIVE Join(_, _)
\* sep.join(rows) followed by one more sep when rows is not empty.
Join(rows, sep) ==
    IF Len(rows) = 0 THEN <<>> ELSE Head(rows) \o sep \o Join(Tail(rows), sep)

RECURSIVE SeqsUpTo(_, _)
\* All sequences over S of length at most n.
SeqsUpTo(S, n) ==
    IF n = 0
    THEN {<<>>}
    ELSE LET shorter == SeqsUpTo(S, n - 1)
         IN  shorter \cup {Append(s, x) : s \in shorter, x \in S}


RECURSIVE Str(_)
\* str(n) for a natural number.
Str(n) ==
    LET digit == <<"0", "1", "2", "3", "4", "5", "6", "7", "8", "9">>[(n % 10) + 1]
    IN  IF n < 10 THEN <<digit>> ELSE Str(n \div 10) \o <<digit>>

\* Python's None.
None == <<>>

(***************************************************************************)
(* The panel's side of the serial line.                                    *)
(***************************************************************************)
CmdLOGIN == <<"L", "O", "G", "I", "N">>
CmdCLIST == <<"C", "L", "I", "S", "T">>
AccessGranted == <<"A", "C", "C", "E", "S", "S", " ", "G", "R", "A", "N", "T", "E", "D">>
Prompt == <<"-">>

\* Passcodes the operator may have configured.
Passcodes == {<<"1", "2", "3", "4">>, <<"7", "7">>}

\* Rows the panel may print in a status list: a point of the points file
\* with two status codes, a point the points file does not know, a row
\* whose status code is cut short, a row with a single token, the prompt
\* and the echo of the command.
Rows ==
    { <<"A", "1", " ", "F", "1", "-">>,
      <<"A", "1", " ", "F", "1", "1">>,
      <<"P", "2", " ", "T", "0", "-">>,
      <<"A", "1", " ", "F">>,
      <<"Z", "N", "1">>,
      Prompt,
      CmdCLIST }

\* What one exchange on the serial line can do: the port raises (kind
\* "ioerror"), or the capture ends with `text` (empty: no byte arrived).
IoError == [kind |-> "ioerror", text |-> <<>>]
Reply(text) == [kind |-> "reply", text |-> text]

\* The panel's answers to CLIST: every list of at most MaxRows rows, each
\* row ended by CR LF.
ClistLinks ==
    {IoError} \cup {Reply(Join(rows, <<"\r", "\n">>)) : rows \in SeqsUpTo(Rows, MaxRows)}

\* The panel's answers to LOGIN (discarded by the code).
LoginLinks == {IoError, Reply(Prompt)}

\* The panel's answers to the passcode: silence, a refusal, the grant, and
\* the grant after an echo of what was typed.
PasscodeLinks(passcode) ==
    { IoError,
      Reply(<<>>),
      Reply(<<"D", "E", "N", "I", "E", "D", "\r", "\n", "-">>),
      Reply(AccessGranted \o <<"\r", "\n", "-">>),
      Reply(passcode \o <<"\r", "\n">> \o AccessGranted \o <<"\r", "\n", "-">>) }

\* A link-level failure of an exchange: an I/O error, or no byte at all.
LinkFailed(link) == link.kind = "ioerror" \/ link.text = <<>>

\* What the last status-list query met on the line.
LinkKind(link) ==
    IF link.kind = "ioerror" THEN "ioerror"
    ELSE IF link.text = <<>> THEN "nobytes" ELSE "reply"

(***************************************************************************)
(* Log records and console output.                                         *)
(***************************************************************************)
Log(level, text) == [chan |-> "log", level |-> level, text |-> text]
Console(text) == [chan |-> "console", level |-> "print", text |-> text]

(***************************************************************************)
(* SimplexTerminal (simplex_terminal.py).                                  *)
(***************************************************************************)
\* _read_response: what is captured and what is printed and logged while
\* capturing.  The capture loop's timing is not modelled here: the capture
\* is the text the exchange ends with.
_read_response(link) ==
    [ response |-> link.text,
      out |-> { Console(<<"\nPanel response: ">>),
                Console(link.text),
                Log("DEBUG", <<"Response received in ", "%.2f", " seconds">>),
                Log("DEBUG", <<"Complete response: ", "'">> \o Repr(link.text) \o <<"'">>) } ]

\* send_command: logs and prints the command, clears the input, writes the
\* command and captures the reply; any exception is logged and turned into
\* the empty string.
send_command(command, link) ==
    LET announced == { Log("INFO", <<"Sending command: ">> \o command),
                       Console(<<"\nSending: ">> \o command) }
    IN  IF link.kind = "ioerror"
        THEN [ response |-> <<>>,
               out |-> announced \cup
                       { Log("ERROR", <<"Error sending command '">> \o command
                                      \o <<"': ", "<serial exception>">>) } ]
        ELSE LET r == _read_response(link)
             IN  [response |-> r.response, out |-> announced \cup r.out]

\* login: LOGIN, then the passcode; success iff the second capture holds
\* the marker.
login(passcode, link1, link2) ==
    LET first == send_command(CmdLOGIN, link1)
        second == send_command(passcode, link2)
        success == IsSubstring(AccessGranted, second.response)
    IN  [ success |-> success,
          out |-> { Log("INFO", <<"Attempting login...">>),
                    Log("DEBUG", <<"Sending passcode...">>),
                    Log("INFO", <<IF success THEN "Login successful" ELSE "Login failed">>) }
                  \cup first.out \cup second.out ]

RECURSIVE ParseLines(_)
\* The loop of _parse_clist over the lines of the response.
ParseLines(lines) ==
    IF Len(lines) = 0
    THEN <<>>
    ELSE LET line == Strip(Head(lines))
             parts == SplitWs(line)
             rest == ParseLines(Tail(lines))
         IN  IF Len(line) = 0 \/ line = Prompt \/ IsSubstring(CmdCLIST, line)
             THEN rest
             ELSE IF Len(parts) >= 2
                  THEN <<[id |-> parts[1], status |-> parts[2]]>> \o rest
                  ELSE rest

\* _parse_clist
_parse_clist(response) == ParseLines(SplitOn(response, "\n"))

\* get_clist: the CLIST exchange and its parse.
get_clist(link) ==
    LET sent == send_command(CmdCLIST, link)
        points == _parse_clist(sent.response)
    IN  [ points |-> points,
          out |-> sent.out \cup
                  { Log("DEBUG", <<"Parsed ">> \o Str(Len(points)) \o <<" points from CLIST">>) } ]

(***************************************************************************)
(* PointStatus and StatusChange (point_status.py).                         *)
(***************************************************************************)
\* The result of a call that may raise: exc is "none" and value the result,
\* or exc names the exception and value is None.
Returned(value) == [exc |-> "none", value |-> value]
Raised(exc) == [exc |-> exc, value |-> None]

\* A table that lacks the entry for 'P'.
StateTypeWithoutPriority2(ch) ==
    CASE ch = "C" -> "Control"
      [] ch = "T" -> "Trouble"
      [] ch = "U" -> "Utility"
      [] ch = "F" -> "Fire"
      [] ch = "S" -> "Supervisory"
      [] OTHER -> "Unknown"

\* The state_type table of from_clist_line.
StateTypeOf(ch) ==
    CASE ch = "C" -> "Control"
      [] ch = "T" -> "Trouble"
      [] ch = "U" -> "Utility"
      [] ch = "F" -> "Fire"
      [] ch = "S" -> "Supervisory"
      [] ch = "P" -> "Priority2"
      [] OTHER -> "Unknown"

\* PointStatus.from_clist_line: status[0], status[1] and status[2] are
\* indexed, so a status shorter than three characters raises IndexError.
\* The timestamp (datetime.now()) is read by nothing and is left out.
from_clist_line(point_id, status) ==
    IF Len(status) < 3
    THEN Raised("IndexError")
    ELSE Returned([ point_id |-> point_id,
                    status |-> status,
                    point_type |-> IF StartsWith(point_id, "A") THEN "Analog"
                                   ELSE IF StartsWith(point_id, "P") THEN "Digital"
                                   ELSE IF StartsWith(point_id, "M") THEN "Mapnet"
                                   ELSE "Physical",
                    state_type |-> StateTypeOf(status[1]),
                    is_active |-> status[2] = "1",
                    is_acknowledged |-> status[3] = "-" ])

\* The fields the StatusChange dataclass declares.
StatusChangeFields == <<"change_type", "previous_status", "new_status", "timestamp">>

\* A StatusChange that declared enriched_data and previous_enriched_data:
\* every keyword is taken.
StatusChangeWithEnrichedFields(change_type, previous_status, new_status, kwargs) ==
    Returned([ change_type |-> change_type,
               previous_status |-> previous_status,
               new_status |-> new_status ])

\* StatusChange(change_type, previous_status, new_status, **kwargs): the
\* generated __init__ takes the first three fields positionally and raises
\* TypeError for a keyword that is no remaining field of the dataclass.
StatusChange(change_type, previous_status, new_status, kwargs) ==
    IF \A k \in DOMAIN kwargs :
           \E i \in 4..Len(StatusChangeFields) : StatusChangeFields[i] = k
    THEN Returned([ change_type |-> change_type,
                    previous_status |-> previous_status,
                    new_status |-> new_status ])
    ELSE Raised("TypeError")

(***************************************************************************)
(* Dicts keep insertion order: a snapshot (Dict[str, PointStatus]) is the  *)
(* sequence of its values in insertion order, keyed by point_id.           *)
(***************************************************************************)
Keys(d) == {d[i].point_id : i \in DOMAIN d}
Lookup(d, point_id) == d[CHOOSE i \in DOMAIN d : d[i].point_id = point_id]

\* d[value.point_id] = value
DictSet(d, value) ==
    IF value.point_id \in Keys(d)
    THEN [i \in DOMAIN d |-> IF d[i].point_id = value.point_id THEN value ELSE d[i]]
    ELSE Append(d, value)

RECURSIVE BuildStates(_, _)
\* The dict comprehension of start_monitoring over points_data, from row i.
BuildStates(points_data, acc) ==
    IF Len(points_data) = 0
    THEN Returned(acc)
    ELSE LET p == Head(points_data)
             made == from_clist_line(p.id, p.status)
         IN  IF made.exc # "none"
             THEN Raised(made.exc)
             ELSE BuildStates(Tail(points_data), DictSet(acc, made.value))

(***************************************************************************)
(* PointsManager (points_manager.py): per known key, the last status       *)
(* recorded; None until the first update.  The descriptive fields of       *)
(* PointInfo come from the points file and are not modelled.               *)
(***************************************************************************)
\* Keys of the points file as loaded.
KnownKeys == {<<"A", "1">>}

\* get_point_info: the exact key, else the key without its last "-0".
get_point_info(points, point_id) ==
    IF point_id \in DOMAIN points
    THEN {point_id}
    ELSE IF RSplitDash0(point_id) \in DOMAIN points
         THEN {RSplitDash0(point_id)}
         ELSE {}

\* update_point_status: records the status of a known point.
update_point_status(points, point_id, status) ==
    LET info == get_point_info(points, point_id)
    IN  IF info # {}
        THEN [ points |-> [k \in DOMAIN points |-> IF k \in info THEN status ELSE points[k]],
               out |-> {} ]
        ELSE [ points |-> points,
               out |-> { Log("WARNING", <<"Attempted to update status for unknown point: ">>
                                         \o point_id) } ]

\* get_enriched_status: the status merged with the point's description.
get_enriched_status(points, point_status) ==
    LET info == get_point_info(points, point_status.point_id)
    IN  IF info = {}
        THEN [ value |-> [status |-> point_status, described |-> FALSE],
               out |-> { Log("WARNING", <<"No point information found for ">>
                                         \o point_status.point_id) } ]
        ELSE [ value |-> [status |-> point_status, described |-> TRUE],
               out |-> {} ]

(***************************************************************************)
(* StatusMonitor.detect_changes (status_monitor.py).                       *)
(***************************************************************************)
\* The comparison of line 36.
\* A comparison of the two PointStatus objects rather than of their status
\* codes: their timestamps always differ.
PointStatusDiffers(new_status, old_status) == TRUE

StatusDiffers(new_status, old_status) == new_status.status # old_status.status

\* One turn of the first loop: the point's status is recorded in the points
\* manager, then a NEW or a CHANGED StatusChange is built and appended.
\* acc is [exc, changes, points, out]; an exception ends the call.
NewOrChanged(current_states, new_status, acc) ==
    LET upd == update_point_status(acc.points, new_status.point_id, new_status.status)
        new_enriched == get_enriched_status(upd.points, new_status)
    IN  IF new_status.point_id \notin Keys(current_states)
        THEN LET made == StatusChange("NEW", None, new_status,
                                      [enriched_data |-> new_enriched.value])
             IN  [ exc |-> made.exc,
                   changes |-> IF made.exc = "none"
                               THEN Append(acc.changes, made.value) ELSE acc.changes,
                   points |-> upd.points,
                   out |-> acc.out \cup upd.out \cup new_enriched.out ]
        ELSE LET old_status == Lookup(current_states, new_status.point_id)
                 old_enriched == get_enriched_status(upd.points, old_status)
                 made == StatusChange("CHANGED", old_status, new_status,
                                      [ enriched_data |-> new_enriched.value,
                                        previous_enriched_data |-> old_enriched.value ])
             IN  IF StatusDiffers(new_status, old_status)
                 THEN [ exc |-> made.exc,
                        changes |-> IF made.exc = "none"
                                    THEN Append(acc.changes, made.value) ELSE acc.changes,
                        points |-> upd.points,
                        out |-> acc.out \cup upd.out \cup old_enriched.out
                                \cup new_enriched.out ]
                 ELSE [acc EXCEPT !.points = upd.points, !.out = acc.out \cup upd.out]

RECURSIVE DetectNewOrChanged(_, _, _)
\* The first loop of detect_changes, over new_states in insertion order.
DetectNewOrChanged(current_states, new_states, acc) ==
    IF acc.exc # "none" \/ Len(new_states) = 0
    THEN acc
    ELSE DetectNewOrChanged(current_states, Tail(new_states),
                            NewOrChanged(current_states, Head(new_states), acc))

\* One turn of the second loop: a CLEARED StatusChange for a point that is
\* no longer listed.
Cleared(new_states, old_status, acc) ==
    LET old_enriched == get_enriched_status(acc.points, old_status)
        made == StatusChange("CLEARED", old_status, None,
                             [previous_enriched_data |-> old_enriched.value])
    IN  IF old_status.point_id \notin Keys(new_states)
        THEN [ exc |-> made.exc,
               changes |-> IF made.exc = "none"
                           THEN Append(acc.changes, made.value) ELSE acc.changes,
               points |-> acc.points,
               out |-> acc.out \cup old_enriched.out ]
        ELSE acc

RECURSIVE DetectCleared(_, _, _)
\* The second loop of detect_changes, over current_states in insertion order.
DetectCleared(remaining, new_states, acc) ==
    IF acc.exc # "none" \/ Len(remaining) = 0
    THEN acc
    ELSE DetectCleared(Tail(remaining), new_states,
                       Cleared(new_states, Head(remaining), acc))

\* detect_changes(new_states) on a monitor holding current_states, with the
\* points manager in state points: [exc, changes, points, out].
detect_changes(current_states, new_states, points) ==
    DetectCleared(current_states, new_states,
        DetectNewOrChanged(current_states, new_states,
            [exc |-> "none", changes |-> <<>>, points |-> points, out |-> {}]))

\* _handle_changes: one INFO record per change.  The description comes from
\* the points file and stands as one literal part.
_handle_changes(changes) ==
    { Log("INFO",
          CASE changes[i].change_type = "NEW" ->
                   <<"New point: ">> \o changes[i].new_status.point_id \o <<" - ">>
                   \o changes[i].new_status.status \o <<" (", "<description>", ")">>
            [] changes[i].change_type = "CHANGED" ->
                   <<"Status changed: ">> \o changes[i].new_status.point_id \o <<" from ">>
                   \o changes[i].previous_status.status \o <<" to ">>
                   \o changes[i].new_status.status \o <<" (", "<description>", ")">>
            [] OTHER ->
                   <<"Point cleared: ">> \o changes[i].previous_status.point_id
                   \o <<" (", "<description>", ")">>) : i \in DOMAIN changes }

(***************************************************************************)
(* The monitor as a state machine.                                         *)
(*                                                                         *)
(* pc is the position of the thread that runs start_monitoring:            *)
(*   "idle"            constructed, start_monitoring not called            *)
(*   "authenticating"  inside the initial login (line 62)                  *)
(*   "loop"            at the test of `while self.running` (line 69)       *)
(*   "polled"          inside the try, get_clist has returned (line 71)    *)
(*   "sleeping"        inside the try, in time.sleep (line 81)             *)
(*   "handler"         inside the except clause (lines 83-87)              *)
(*   "returned"        start_monitoring has returned                       *)
(*   "interrupted"     a KeyboardInterrupt has left start_monitoring       *)
(*   "propagated"      an exception of the iteration has left it           *)
(***************************************************************************)
\* Every CLIST exchange the panel can take part in, with what get_clist
\* makes of it.
ClistExchanges == {[link |-> link, result |-> get_clist(link)] : link \in ClistLinks}

\* Every login exchange, per passcode, with what login makes of it.
LoginExchanges ==
    [p \in Passcodes |->
        {login(p, link1, link2) : link1 \in LoginLinks, link2 \in PasscodeLinks(p)}]

VARIABLES
    pc,              \* position of the monitoring thread
    running,         \* StatusMonitor.running
    current_states,  \* StatusMonitor.current_states
    points,          \* PointsManager.points: key -> last_status
    passcode,        \* the passcode start_monitoring was called with
    points_data,     \* the local points_data, from get_clist's return until
                     \* the iteration is over (dead from there to the next query)
    out,             \* log records and console output of the last step
    iter,            \* history: the poll iteration in progress, or just ended
                     \* and not yet followed by the sleep's end or a login
    hist,            \* history: what has happened since start_monitoring
    facp,            \* a FACPConnection: its sequence_number and its last call
    codec,           \* a byte sequence, its checksum and what became of them
    call             \* one call followed on its own: its arguments, its progress
                     \* and its result

vars == <<pc, running, current_states, points, passcode, points_data, out, iter, hist,
          facp, codec, call>>

NoCall == [name |-> "none"]

\* The monitor program constructs no FACPConnection.
NoConnection == [sequence_number |-> 0, op |-> [name |-> "none"]]
NoCodec == [data |-> <<>>, checksum |-> <<>>, flipped |-> "none", valid |-> "unknown"]

Executing == {"authenticating", "loop", "polled", "sleeping", "handler"}

\* A loop that went on whatever login returned.
LoginResultIgnored(success) == TRUE

\* `if not self.terminal.login(passcode): return` (62-64) and
\* `if not self.terminal.login(passcode): break` (85-87): whether the loop
\* goes on after a login that returned success.
LoggedIn(success) == success

\* An except clause that named TypeError alone.
CaughtOnlyTypeError(exc) == exc = "TypeError"

\* `except Exception` (line 83): the exceptions the clause catches.
CaughtByHandler(exc) == exc \in {"IndexError", "TypeError"}

\* An assignment of the new snapshot made before it is diffed.
SnapshotAssignedFirst(exc, held, new_states) == new_states

\* Lines 77-79: `self.current_states = new_states` comes after detect_changes
\* and _handle_changes, so it is reached only when neither raised.
SnapshotAfter(exc, held, new_states) == IF exc # "none" THEN held ELSE new_states

NoDetect ==
    [called |-> FALSE, previous |-> <<>>, current |-> <<>>, exc |-> "none", changes |-> <<>>]

NoHistory ==
    [ stopRequested |-> FALSE,            \* stop() was called during the run
      lastLogin |-> "none",               \* which login came last, and its result
      queried |-> FALSE,                  \* a status-list query was issued
      errPending |-> FALSE,               \* a query failed on the link, no login since
      failPending |-> FALSE,              \* a query failed with a snapshot held and
                                          \* no later query has succeeded and been diffed
      preFailure |-> <<>>,                \* the snapshot held at that failure
      relogins |-> 0,                     \* logins since the last exception was caught
      sleeps |-> 0,                       \* inter-poll sleeps ended since the last query
      logins |-> 0,                       \* successful logins since the last query
      outcome |-> "none",                 \* how the iteration of the last query ended
      interruptedAt |-> "none" ]          \* pc when KeyboardInterrupt arrived

NoIteration ==
    [ held |-> <<>>,          \* current_states when the query was issued
      before |-> NoHistory,   \* hist when the query was issued
      link |-> "none",        \* "ioerror", "nobytes" or "reply"
      outcome |-> "none",     \* "completed" (reached the sleep) or "raised"
      exc |-> "none",         \* the exception that ended it
      detected |-> NoDetect,  \* the call of detect_changes, if made
      forwarded |-> <<>> ]    \* the changes handed to _handle_changes

\* StatusMonitor.__init__ and PointsManager after load_points_file.
Init ==
    /\ pc = "idle"
    /\ running = FALSE
    /\ current_states = <<>>
    /\ points = [k \in KnownKeys |-> None]
    /\ passcode \in Passcodes
    /\ points_data = <<>>
    /\ out = {}
    /\ iter = NoIteration
    /\ hist = NoHistory
    /\ facp = NoConnection
    /\ codec = NoCodec
    /\ call = NoCall

\* main.py calls monitor.start_monitoring(passcode).
StartMonitoring ==
    /\ pc = "idle"
    /\ pc' = "authenticating"
    /\ out' = {}
    /\ UNCHANGED <<running, current_states, points, passcode, points_data, iter, hist,
                   facp, codec, call>>

\* Lines 62-67: the initial login; on success running is set.
InitialLogin ==
    /\ pc = "authenticating"
    /\ \E r \in LoginExchanges[passcode] :
              /\ pc' = IF LoggedIn(r.success) THEN "loop" ELSE "returned"
              /\ running' = IF LoggedIn(r.success) THEN TRUE ELSE running
              /\ out' = r.out \cup
                        { IF LoggedIn(r.success)
                          THEN Log("INFO", <<"Starting monitoring loop">>)
                          ELSE Log("ERROR", <<"Failed to login">>) }
              /\ hist' = [hist EXCEPT
                            !.lastLogin = IF r.success THEN "initial_ok" ELSE "initial_failed",
                            !.errPending = FALSE]
    /\ UNCHANGED <<current_states, points, passcode, points_data, iter, facp, codec, call>>

\* Lines 69-71: the loop test passes and get_clist runs.
GetClist ==
    /\ pc = "loop"
    /\ running
    /\ \E e \in ClistExchanges :
          LET link == e.link
              r == e.result
          IN  /\ points_data' = r.points
              /\ out' = r.out
              /\ iter' = [NoIteration EXCEPT
                            !.held = current_states,
                            !.before = hist,
                            !.link = LinkKind(link)]
              /\ hist' = [hist EXCEPT
                            !.queried = TRUE,
                            !.errPending = @ \/ LinkFailed(link),
                            !.failPending = @ \/ (LinkFailed(link) /\ current_states # <<>>),
                            !.preFailure = IF ~hist.failPending /\ LinkFailed(link)
                                           THEN current_states ELSE @,
                            !.sleeps = 0,
                            !.logins = 0,
                            !.outcome = "none"]
    /\ pc' = "polled"
    /\ UNCHANGED <<running, current_states, points, passcode, facp, codec, call>>

\* Line 69: the loop test fails and start_monitoring returns.
ExitLoop ==
    /\ pc = "loop"
    /\ ~running
    /\ pc' = "returned"
    /\ out' = {}
    /\ UNCHANGED <<running, current_states, points, passcode, points_data, iter, hist,
                   facp, codec, call>>

\* An iteration that goes to the sleep however it ended.
AfterPollSleepsAlways(exc) == "sleeping"

\* Where the iteration goes from the statements of lines 72-79: to the
\* sleep of line 81 when nothing was raised, to the except clause of line 83
\* otherwise.
AfterPoll(exc) ==
    IF exc = "none" THEN "sleeping"
    ELSE IF CaughtByHandler(exc) THEN "handler" ELSE "propagated"

\* Lines 72-79 and 83-84: the snapshot is built, diffed, dispatched and
\* assigned; an exception on the way leads to the except clause.
ProcessPoll ==
    /\ pc = "polled"
    /\ LET built == BuildStates(points_data, <<>>)
           det == IF built.exc = "none"
                  THEN detect_changes(current_states, built.value, points)
                  ELSE [exc |-> built.exc, changes |-> <<>>, points |-> points, out |-> {}]
           raised == det.exc # "none"
       IN  /\ pc' = AfterPoll(det.exc)
           /\ current_states' = SnapshotAfter(det.exc, current_states, built.value)
           /\ points' = det.points
           /\ out' = det.out \cup
                     (IF ~raised THEN _handle_changes(det.changes)
                      ELSE IF CaughtByHandler(det.exc)
                           THEN {Log("ERROR", <<"Error during monitoring: ", det.exc>>)}
                           ELSE {})
           /\ iter' = [iter EXCEPT
                         !.outcome = IF raised THEN "raised" ELSE "completed",
                         !.exc = det.exc,
                         !.detected = IF built.exc = "none"
                                      THEN [ called |-> TRUE,
                                             previous |-> current_states,
                                             current |-> built.value,
                                             exc |-> det.exc,
                                             changes |-> det.changes ]
                                      ELSE NoDetect,
                         !.forwarded = IF raised THEN <<>> ELSE det.changes]
           /\ hist' = [hist EXCEPT
                         !.failPending = @ /\ iter.link # "reply",
                         !.relogins = IF raised THEN 0 ELSE @,
                         !.outcome = IF raised THEN "raised" ELSE "completed"]
    /\ UNCHANGED <<running, passcode, points_data, facp, codec, call>>

\* Line 81: the sleep ends.
Wake ==
    /\ pc = "sleeping"
    /\ pc' = "loop"
    /\ out' = {}
    /\ iter' = NoIteration
    /\ points_data' = <<>>
    /\ hist' = [hist EXCEPT !.sleeps = @ + 1]
    /\ UNCHANGED <<running, current_states, points, passcode, facp, codec, call>>

\* Lines 85-87: the login of the except clause.
Relogin ==
    /\ pc = "handler"
    /\ \E r \in LoginExchanges[passcode] :
              /\ pc' = IF LoggedIn(r.success) THEN "loop" ELSE "returned"
              /\ out' = r.out \cup
                        (IF LoggedIn(r.success)
                         THEN {}
                         ELSE {Log("ERROR", <<"Failed to relogin after error">>)})
              /\ hist' = [hist EXCEPT
                            !.lastLogin = IF r.success THEN "recovery_ok" ELSE "recovery_failed",
                            !.errPending = FALSE,
                            !.relogins = @ + 1,
                            !.logins = IF r.success THEN @ + 1 ELSE @]
    /\ iter' = NoIteration
    /\ points_data' = <<>>
    /\ UNCHANGED <<running, current_states, points, passcode, facp, codec, call>>

\* Lines 112-114: stop(), called by another thread while start_monitoring runs.
Stop ==
    /\ pc \in Executing
    /\ running' = FALSE
    /\ hist' = [hist EXCEPT !.stopRequested = TRUE]
    /\ out' = {}
    /\ UNCHANGED <<pc, current_states, points, passcode, points_data, iter, facp, codec, call>>

\* The user's interrupt, which main.py expects to leave start_monitoring
\* (main.py 53-54): KeyboardInterrupt is no Exception, so neither the except
\* clause of line 83 nor those of the terminal catch it.
KeyboardInterrupt ==
    /\ pc \in Executing
    /\ pc' = "interrupted"
    /\ hist' = [hist EXCEPT !.interruptedAt = pc]
    /\ out' = {}
    /\ UNCHANGED <<running, current_states, points, passcode, points_data, iter, facp, codec, call>>

Next ==
    \/ StartMonitoring
    \/ InitialLogin
    \/ GetClist
    \/ ExitLoop
    \/ ProcessPoll
    \/ Wake
    \/ Relogin
    \/ Stop
    \/ KeyboardInterrupt

Spec == Init /\ [][Next]_vars

(***************************************************************************)
(* A monitor that already holds a snapshot when start_monitoring is        *)
(* called.  current_states is a plain attribute which detect_changes and   *)
(* the loop take as they find it; the diff and recovery properties are     *)
(* about a monitor that holds one.                                         *)
(***************************************************************************)
\* The snapshot a reply made of `rows` builds.
SnapshotOf(rows) == BuildStates(_parse_clist(Join(rows, <<"\r", "\n">>)), <<>>).value

HeldSnapshots ==
    { SnapshotOf(<<>>),
      SnapshotOf(<< <<"A", "1", " ", "F", "1", "-">> >>),
      SnapshotOf(<< <<"A", "1", " ", "F", "1", "-">>, <<"P", "2", " ", "T", "0", "-">> >>) }

InitHeld ==
    /\ pc = "idle"
    /\ running = FALSE
    /\ current_states \in HeldSnapshots
    /\ points = [k \in KnownKeys |-> None]
    /\ passcode \in Passcodes
    /\ points_data = <<>>
    /\ out = {}
    /\ iter = NoIteration
    /\ hist = NoHistory
    /\ facp = NoConnection
    /\ codec = NoCodec
    /\ call = NoCall

SpecHeld == InitHeld /\ [][Next]_vars

(***************************************************************************)
(* FACPConnection (facp_connection.py): the framed link.  Bytes are the    *)
(* numbers 0..255, a bytes object is a sequence of them, and a str is the  *)
(* sequence of its code points.                                            *)
(***************************************************************************)
MaxData == 2
MaxBody == 2

BEGIN == 28
END == 23
ACK == 6
StartSequence == 64

RECURSIVE Sum(_)
\* sum(data)
Sum(data) == IF Len(data) = 0 THEN 0 ELSE Head(data) + Sum(Tail(data))

\* A checksum that kept the low six bits of the sum only.
ChecksumOfLowSixBits(data) ==
    LET checksum == 63 - (Sum(data) % 64)
    IN  <<64, checksum + 64>>

\* A checksum transmitted low six bits first.
ChecksumLowHalfFirst(data) ==
    LET checksum == 4095 - (Sum(data) % 4096)
    IN  <<(checksum % 64) + 64, ((checksum \div 64) % 64) + 64>>

\* _calculate_checksum: with 0 <= checksum < 4096, (~checksum) & 0xFFF is
\* 4095 - checksum; (x >> 6) & 0x3F is (x \div 64) % 64 and x & 0x3F is
\* x % 64.
_calculate_checksum(data) ==
    LET checksum == 4095 - (Sum(data) % 4096)
    IN  <<((checksum \div 64) % 64) + 64, (checksum % 64) + 64>>

\* Line 75: the received checksum is accepted when the recomputed one is
\* equal to it, byte for byte.
ChecksumValid(data, checksum) == _calculate_checksum(data) = checksum

RECURSIVE Pow2(_)
Pow2(k) == IF k = 0 THEN 1 ELSE 2 * Pow2(k - 1)

\* The byte with bit k (0..7) inverted, as a fault of the line does it.
FlipBit(byte, k) ==
    IF (byte \div Pow2(k)) % 2 = 1 THEN byte - Pow2(k) ELSE byte + Pow2(k)

FlipBitAt(data, i, k) == [data EXCEPT ![i] = FlipBit(data[i], k)]

\* Byte values the codec is tried on, and byte sequences: all short ones
\* and two whose sum passes 4095 (17 bytes 0xFF; 16 bytes 0xFF and 0x10,
\* which sum to 4096).
ByteValues == {0, 23, 65, 127, 128, 255}

LongData ==
    { [i \in 1..17 |-> 255],
      [i \in 1..17 |-> IF i = 17 THEN 16 ELSE 255] }

ByteSeqs == SeqsUpTo(ByteValues, MaxData) \cup LongData

\* The codec on its own: a byte sequence gets its checksum, a bit of the
\* sequence or of the checksum may be inverted on the way, and the receiver
\* validates.
InitChecksum ==
    /\ pc = "idle"
    /\ running = FALSE
    /\ current_states = <<>>
    /\ points = [k \in KnownKeys |-> None]
    /\ passcode = <<>>
    /\ points_data = <<>>
    /\ out = {}
    /\ iter = NoIteration
    /\ hist = NoHistory
    /\ facp = NoConnection
    /\ codec \in {[NoCodec EXCEPT !.data = data] : data \in ByteSeqs}
    /\ call = NoCall

MonitorVars == <<pc, running, current_states, points, passcode, points_data, out, iter, hist>>

Compute ==
    /\ codec.checksum = <<>>
    /\ codec' = [codec EXCEPT !.checksum = _calculate_checksum(codec.data)]
    /\ UNCHANGED <<MonitorVars, facp, call>>

FlipDataBit ==
    /\ codec.checksum # <<>>
    /\ codec.flipped = "none"
    /\ codec.valid = "unknown"
    /\ \E i \in DOMAIN codec.data, k \in 0..7 :
           codec' = [codec EXCEPT !.data = FlipBitAt(codec.data, i, k), !.flipped = "data"]
    /\ UNCHANGED <<MonitorVars, facp, call>>

FlipChecksumBit ==
    /\ codec.checksum # <<>>
    /\ codec.flipped = "none"
    /\ codec.valid = "unknown"
    /\ \E i \in DOMAIN codec.checksum, k \in 0..7 :
           codec' = [codec EXCEPT !.checksum = FlipBitAt(codec.checksum, i, k),
                                  !.flipped = "checksum"]
    /\ UNCHANGED <<MonitorVars, facp, call>>

Validate ==
    /\ codec.checksum # <<>>
    /\ codec.valid = "unknown"
    /\ codec' = [codec EXCEPT !.valid = IF ChecksumValid(codec.data, codec.checksum)
                                        THEN "yes" ELSE "no"]
    /\ UNCHANGED <<MonitorVars, facp, call>>

NextChecksum ==
    \/ Compute
    \/ FlipDataBit
    \/ FlipChecksumBit
    \/ Validate

SpecChecksum == InitChecksum /\ [][NextChecksum]_vars

(***************************************************************************)
(* FACPConnection: frames, send_command and read_response.                 *)
(***************************************************************************)
\* message_body.encode('ascii'): the code points as bytes, or
\* UnicodeEncodeError for a code point above 127.
encode_ascii(text) ==
    IF \E i \in DOMAIN text : text[i] > 127
    THEN Raised("UnicodeEncodeError")
    ELSE Returned([i \in DOMAIN text |-> text[i]])

\* bytes.decode('ascii'): the bytes as code points, or UnicodeDecodeError
\* for a byte above 127.
decode_ascii(data) ==
    IF \E i \in DOMAIN data : data[i] > 127
    THEN Raised("UnicodeDecodeError")
    ELSE Returned([i \in DOMAIN data |-> data[i]])

\* A counter that was never wrapped.
NextSequenceUnwrapped(sequence_number) == sequence_number + 1

\* Line 31: (self.sequence_number - 0x40 + 1) % 64 + 0x40
NextSequence(sequence_number) == ((sequence_number - 64 + 1) % 64) + 64

\* A sender that summed the END byte too.
SentSpanWithEnd(message) == SubSeq(message, 2, Len(message))

\* Line 35: message[1:-1] of BEGIN, sequence, body, END.
SentSpan(message) == SubSeq(message, 2, Len(message) - 1)

\* Line 74: response[1:-3] of BEGIN, ..., END, checksum.
ReceivedSpan(response) == SubSeq(response, 2, Len(response) - 3)

\* _construct_message on a connection whose counter is sequence_number:
\* the counter is advanced first, then the body is encoded.
_construct_message(sequence_number, message_body) ==
    LET advanced == NextSequence(sequence_number)
        encoded == encode_ascii(message_body)
        message == <<BEGIN, advanced>> \o encoded.value \o <<END>>
    IN  [ sequence_number |-> advanced,
          exc |-> encoded.exc,
          message |-> IF encoded.exc = "none"
                      THEN message \o _calculate_checksum(SentSpan(message))
                      ELSE <<>> ]

\* What self.ser.read(1) returns after the frame was written: nothing (the
\* read timed out), the ACK byte, or another byte (NAK).
Acks == {<<>>, <<ACK>>, <<21>>}

\* FACPConnection.send_command, with ack what the port then delivers.
facp_send_command(sequence_number, command, ack) ==
    LET built == _construct_message(sequence_number, command)
    IN  [ sequence_number |-> built.sequence_number,
          exc |-> IF built.exc # "none" THEN built.exc
                  ELSE IF ack # <<ACK>> THEN "CommunicationError" ELSE "none",
          written |-> built.message ]

\* The index of the first occurrence of byte in data, 0 when there is none.
FirstIndex(data, byte) ==
    IF \E i \in DOMAIN data : data[i] = byte
    THEN CHOOSE i \in DOMAIN data : data[i] = byte /\ \A j \in 1..(i - 1) : data[j] # byte
    ELSE 0

ReadFailed(message) ==
    [exc |-> "CommunicationError", message |-> message, response |-> <<>>,
     written |-> <<>>, value |-> None]

\* read_response, with stream the bytes the port delivers before a read
\* times out: bytes are dropped up to BEGIN, accumulated up to END, two
\* more are read, the checksum is recomputed and compared, ACK is written,
\* and the body is decoded.
read_response(stream) ==
    LET b == FirstIndex(stream, BEGIN)
        rest == SubSeq(stream, b + 1, Len(stream))
        e == FirstIndex(rest, END)
        checksum == SubSeq(rest, e + 1, IF e + 2 <= Len(rest) THEN e + 2 ELSE Len(rest))
        response == <<BEGIN>> \o SubSeq(rest, 1, e) \o checksum
        decoded == decode_ascii(SubSeq(response, 3, Len(response) - 3))
    IN  IF b = 0 THEN ReadFailed("Timeout waiting for BEGIN character")
        ELSE IF e = 0 THEN ReadFailed("Timeout waiting for END character")
        ELSE IF Len(checksum) # 2 THEN ReadFailed("Failed to read checksum")
        ELSE IF ~ChecksumValid(ReceivedSpan(response), checksum)
             THEN ReadFailed("Checksum mismatch")
        ELSE [ exc |-> decoded.exc,
               message |-> "",
               response |-> response,
               written |-> <<ACK>>,
               value |-> decoded.value ]

\* Command bodies: every str of up to MaxBody characters over "A", the
\* control characters FS (0x1C) and ETB (0x17), and a character outside
\* ASCII.
BodyChars == {65, 28, 23, 233}
Bodies == SeqsUpTo(BodyChars, MaxBody)

\* What the panel may put on the line for read_response: frames that
\* validate (some with a byte above 127 in the body), every proper prefix
\* of them, a frame after other bytes, frames with a bit inverted, frames
\* whose checksum was summed over the END byte too, and the shortest frame.
PanelFrame(sequence, body) ==
    <<BEGIN, sequence>> \o body \o <<END>> \o _calculate_checksum(<<sequence>> \o body)

PanelFrameEndSummed(sequence, body) ==
    <<BEGIN, sequence>> \o body \o <<END>> \o _calculate_checksum(<<sequence>> \o body \o <<END>>)

PanelFrames ==
    { PanelFrame(sequence, body) : sequence \in {65, 127}, body \in {<<>>, <<65>>, <<65, 233>>} }

PanelStreams ==
    PanelFrames
    \cup UNION { { SubSeq(frame, 1, n) : n \in 0..(Len(frame) - 1) } : frame \in PanelFrames }
    \cup { <<0, 65>> \o frame : frame \in PanelFrames }
    \cup { FlipBitAt(PanelFrame(65, <<65>>), i, 0) : i \in 1..6 }
    \cup { PanelFrameEndSummed(sequence, <<65>>) : sequence \in {65, 127} }
    \cup { <<BEGIN, END, 127, 127>> }

ReadExchanges == {[stream |-> stream, result |-> read_response(stream)] : stream \in PanelStreams}

NoOp ==
    [ name |-> "none",     \* "send" or "read": the last call
      before |-> 0,        \* sequence_number when it was called
      input |-> <<>>,      \* the command, or the stream
      own |-> FALSE,       \* the stream was the frame this connection sent
      sent |-> <<>>,       \* and this was its body
      exc |-> "none",      \* the exception the call raised
      response |-> <<>>,   \* the frame read_response accepted
      written |-> <<>>,    \* the bytes the call wrote to the port
      value |-> None ]     \* what the call returned

\* FACPConnection.__init__ (line 15).
InitFacp ==
    /\ pc = "idle"
    /\ running = FALSE
    /\ current_states = <<>>
    /\ points = [k \in KnownKeys |-> None]
    /\ passcode = <<>>
    /\ points_data = <<>>
    /\ out = {}
    /\ iter = NoIteration
    /\ hist = NoHistory
    /\ facp = [sequence_number |-> StartSequence, op |-> NoOp]
    /\ codec = NoCodec
    /\ call = NoCall

\* send_command(command)
FacpSend ==
    /\ \E command \in Bodies, ack \in Acks :
           LET r == facp_send_command(facp.sequence_number, command, ack)
           IN  facp' = [ sequence_number |-> r.sequence_number,
                         op |-> [NoOp EXCEPT
                                   !.name = "send",
                                   !.before = facp.sequence_number,
                                   !.input = command,
                                   !.exc = r.exc,
                                   !.written = r.written] ]
    /\ UNCHANGED <<MonitorVars, codec, call>>

ReadResult(r, stream, own, sent) ==
    [ sequence_number |-> facp.sequence_number,
      op |-> [NoOp EXCEPT
                !.name = "read",
                !.before = facp.sequence_number,
                !.input = stream,
                !.own = own,
                !.sent = sent,
                !.exc = r.exc,
                !.response = r.response,
                !.written = r.written,
                !.value = r.value] ]

\* read_response() with the panel's bytes on the line.
FacpRead ==
    /\ \E x \in ReadExchanges : facp' = ReadResult(x.result, x.stream, FALSE, <<>>)
    /\ UNCHANGED <<MonitorVars, codec, call>>

\* read_response() fed the exact bytes the last send_command wrote.
FacpReadOwnFrame ==
    /\ facp.op.name = "send"
    /\ facp.op.written # <<>>
    /\ facp' = ReadResult(read_response(facp.op.written), facp.op.written,
                          TRUE, facp.op.input)
    /\ UNCHANGED <<MonitorVars, codec, call>>

NextFacp ==
    \/ FacpSend
    \/ FacpRead
    \/ FacpReadOwnFrame

SpecFacp == InitFacp /\ [][NextFacp]_vars

(***************************************************************************)
(* FACPConnection.read_response, one self.ser.read at a time.  The peer    *)
(* decides what each read returns: a byte, or nothing when the port's      *)
(* timeout of one second passes first.                                     *)
(***************************************************************************)
MaxResponse == 4

\* Bytes the peer may deliver to a read of one byte.
PortBytes == {BEGIN, END, 0, 65}

\* Past MaxResponse accumulated bytes the peer is taken to end the frame or
\* to fall silent, which keeps the accumulated response finite here; the
\* loop of lines 59-65 itself has no such limit.
EndLoopBytes(response) == IF Len(response) < MaxResponse THEN PortBytes ELSE {END}

ReadCall ==
    [ name |-> "read_response",
      pc |-> "begin",       \* "begin", "end", "checksum", "validate", "done"
      char |-> <<>>,        \* what the last self.ser.read returned
      response |-> <<>>,
      exc |-> "none",
      message |-> "",
      written |-> <<>>,
      value |-> None ]

InitRead ==
    /\ pc = "idle"
    /\ running = FALSE
    /\ current_states = <<>>
    /\ points = [k \in KnownKeys |-> None]
    /\ passcode = <<>>
    /\ points_data = <<>>
    /\ out = {}
    /\ iter = NoIteration
    /\ hist = NoHistory
    /\ facp = [sequence_number |-> StartSequence, op |-> NoOp]
    /\ codec = NoCodec
    /\ call = ReadCall

ReadRaise(message) ==
    [call EXCEPT !.pc = "done", !.char = <<>>, !.exc = "CommunicationError",
                 !.message = message]

\* Lines 50-56: one turn of the loop that waits for BEGIN.
ReadBegin ==
    /\ call.name = "read_response"
    /\ call.pc = "begin"
    /\ \/ call' = ReadRaise("Timeout waiting for BEGIN character")
       \/ \E byte \in PortBytes :
              call' = IF byte = BEGIN
                      THEN [call EXCEPT !.pc = "end", !.char = <<byte>>,
                                        !.response = <<byte>>]
                      ELSE [call EXCEPT !.char = <<byte>>]
    /\ UNCHANGED <<MonitorVars, facp, codec>>

\* Lines 59-65: one turn of the loop that reads up to END.
ReadEnd ==
    /\ call.name = "read_response"
    /\ call.pc = "end"
    /\ \/ call' = ReadRaise("Timeout waiting for END character")
       \/ \E byte \in EndLoopBytes(call.response) :
              call' = [call EXCEPT !.pc = IF byte = END THEN "checksum" ELSE "end",
                                   !.char = <<byte>>,
                                   !.response = Append(call.response, byte)]
    /\ UNCHANGED <<MonitorVars, facp, codec>>

\* Lines 68-71: self.ser.read(2) returns the two bytes, or fewer.
ReadChecksum ==
    /\ call.name = "read_response"
    /\ call.pc = "checksum"
    /\ \E checksum \in { <<>>, <<127>>, <<127, 127>>,
                         _calculate_checksum(SubSeq(call.response, 2,
                                                    Len(call.response) - 1)) } :
           call' = IF Len(checksum) # 2
                   THEN ReadRaise("Failed to read checksum")
                   ELSE [call EXCEPT !.pc = "validate", !.char = checksum,
                                     !.response = call.response \o checksum]
    /\ UNCHANGED <<MonitorVars, facp, codec>>

\* Lines 73-85: validation, ACK and decoding.
ReadValidate ==
    /\ call.name = "read_response"
    /\ call.pc = "validate"
    /\ call' = IF ~ChecksumValid(ReceivedSpan(call.response), call.char)
               THEN ReadRaise("Checksum mismatch")
               ELSE LET decoded == decode_ascii(SubSeq(call.response, 3,
                                                       Len(call.response) - 3))
                    IN  [call EXCEPT !.pc = "done", !.exc = decoded.exc,
                                     !.written = <<ACK>>, !.value = decoded.value]
    /\ UNCHANGED <<MonitorVars, facp, codec>>

NextRead ==
    \/ ReadBegin
    \/ ReadEnd
    \/ ReadChecksum
    \/ ReadValidate

\* The calling thread goes on running: each self.ser.read returns within
\* the port's timeout, so a turn that can be taken is taken.
SpecRead == InitRead /\ [][NextRead]_vars /\ WF_vars(NextRead)

(***************************************************************************)
(* SimplexTerminal.send_command and _read_response, one port call at a     *)
(* time, with the clock the capture loop reads.  Time is counted in        *)
(* seconds; a turn of the loop takes no time, time passes while the loop   *)
(* polls.                                                                  *)
(***************************************************************************)
Timeout == 3
MaxTime == 5
MaxChars == 3

\* Code points of the characters used here.
Ord(ch) ==
    CASE ch = "\n" -> 10
      [] ch = "\r" -> 13
      [] ch = "-" -> 45
      [] ch = "A" -> 65
      [] ch = "C" -> 67
      [] ch = "I" -> 73
      [] ch = "L" -> 76
      [] ch = "S" -> 83
      [] ch = "T" -> 84

\* str.encode(): for these characters, one byte each.
encode(text) == [i \in DOMAIN text |-> Ord(text[i])]

\* Bytes the panel may put on the line.
PanelBytes == {10, 45, 65}

\* bytes.decode('latin1') of one byte: never fails.
decode_latin1(byte) == CHOOSE ch \in {"\n", "-", "A"} : Ord(ch) = byte

\* An exception handled at lines 87-89 only because it is none.
CaughtNothing(exc) == FALSE

\* except Exception (line 87): every error a port call can raise.
CaughtBySendCommand(exc) == exc \in {"SerialException", "OSError"}

SendCall ==
    [ name |-> "send_command",
      command |-> CmdCLIST,
      pc |-> "reset",       \* "reset", "write", "loop", "read", "settle", "done", "raised"
      now |-> 0,            \* time.time()
      input |-> <<>>,       \* the port's input buffer
      sent |-> 0,           \* bytes the panel has put on the line
      trace |-> <<>>,       \* port calls made, in order
      written |-> <<>>,
      response |-> <<>>,
      end_time |-> 0,
      last_read |-> 0,      \* time.time() at the last self.serial.read()
      ended |-> "no",       \* "no", "deadline", "prompt", "error"
      value |-> <<>> ]

InitSend ==
    /\ pc = "idle"
    /\ running = FALSE
    /\ current_states = <<>>
    /\ points = [k \in KnownKeys |-> None]
    /\ passcode = <<>>
    /\ points_data = <<>>
    /\ out = {}
    /\ iter = NoIteration
    /\ hist = NoHistory
    /\ facp = NoConnection
    /\ codec = NoCodec
    /\ call = SendCall

\* A port call raised: caught at line 87 and turned into "", or not caught.
SendFailed(c, exc) ==
    IF CaughtBySendCommand(exc)
    THEN [c EXCEPT !.pc = "done", !.ended = "error", !.value = <<>>]
    ELSE [c EXCEPT !.pc = "raised", !.ended = "error"]

\* _read_response returns at line 69 and send_command at line 85.
SendReturned(c, ended) ==
    [c EXCEPT !.pc = "done", !.ended = ended, !.value = c.response]

\* Line 78: self.serial.reset_input_buffer().
SendReset ==
    /\ call.name = "send_command"
    /\ call.pc = "reset"
    /\ LET c == [call EXCEPT !.trace = Append(call.trace, "reset_input_buffer")]
       IN  \/ call' = [c EXCEPT !.pc = "write", !.input = <<>>]
           \/ \E exc \in {"SerialException", "OSError"} : call' = SendFailed(c, exc)
    /\ UNCHANGED <<MonitorVars, facp, codec>>

\* Line 81 and lines 37-39: the command and a carriage return are written;
\* the capture starts with its deadline one timeout away.
SendWrite ==
    /\ call.name = "send_command"
    /\ call.pc = "write"
    /\ LET c == [call EXCEPT !.trace = Append(call.trace, "write")]
       IN  \/ call' = [c EXCEPT !.pc = "loop",
                                !.written = encode(call.command \o <<"\r">>),
                                !.response = <<>>,
                                !.end_time = call.now + Timeout]
           \/ \E exc \in {"SerialException", "OSError"} : call' = SendFailed(c, exc)
    /\ UNCHANGED <<MonitorVars, facp, codec>>

\* Lines 43-44: the test of the deadline, then of in_waiting.
CaptureTest ==
    /\ call.name = "send_command"
    /\ call.pc = "loop"
    /\ \/ call' = IF ~(call.now < call.end_time)
                  THEN SendReturned(call, "deadline")
                  ELSE IF Len(call.input) > 0
                       THEN [call EXCEPT !.pc = "read"]
                       ELSE call
       \/ /\ call.now < call.end_time
          /\ \E exc \in {"SerialException", "OSError"} : call' = SendFailed(call, exc)
    /\ UNCHANGED <<MonitorVars, facp, codec>>

\* Lines 45-60: one byte is read and appended; the deadline moves only if
\* more input is waiting; a reply that ends with the prompt and an empty
\* buffer lead to the settling sleep.
CaptureRead ==
    /\ call.name = "send_command"
    /\ call.pc = "read"
    /\ LET c == [call EXCEPT !.trace = Append(call.trace, "read")]
           response == Append(call.response, decode_latin1(Head(call.input)))
           input == Tail(call.input)
           stripped == RStrip(response)
           prompt == Len(stripped) > 0 /\ stripped[Len(stripped)] = "-"
       IN  \/ call' = [c EXCEPT !.input = input,
                                !.response = response,
                                !.last_read = call.now,
                                !.end_time = IF Len(input) > 0
                                             THEN call.now + Timeout
                                             ELSE call.end_time,
                                !.pc = IF prompt /\ Len(input) = 0
                                       THEN "settle"
                                       ELSE "loop"]
           \/ \E exc \in {"SerialException", "OSError"} : call' = SendFailed(c, exc)
    /\ UNCHANGED <<MonitorVars, facp, codec>>

\* Lines 58-60: after time.sleep(0.1) the buffer is looked at once more.
CaptureSettle ==
    /\ call.name = "send_command"
    /\ call.pc = "settle"
    /\ \/ call' = IF Len(call.input) = 0
                  THEN SendReturned(call, "prompt")
                  ELSE [call EXCEPT !.pc = "loop"]
       \/ \E exc \in {"SerialException", "OSError"} : call' = SendFailed(call, exc)
    /\ UNCHANGED <<MonitorVars, facp, codec>>

\* The panel puts one more byte on the line.
PanelSends ==
    /\ call.name = "send_command"
    /\ call.pc \notin {"done", "raised"}
    /\ call.sent < MaxChars
    /\ \E byte \in PanelBytes :
           call' = [call EXCEPT !.input = Append(call.input, byte),
                                !.sent = call.sent + 1]
    /\ UNCHANGED <<MonitorVars, facp, codec>>

\* A second passes while the loop polls.
Tick ==
    /\ call.name = "send_command"
    /\ call.pc = "loop"
    /\ call.now < MaxTime
    /\ call' = [call EXCEPT !.now = call.now + 1]
    /\ UNCHANGED <<MonitorVars, facp, codec>>

NextSend ==
    \/ SendReset
    \/ SendWrite
    \/ CaptureTest
    \/ CaptureRead
    \/ CaptureSettle
    \/ PanelSends
    \/ Tick

SpecSend == InitSend /\ [][NextSend]_vars

(***************************************************************************)
(* login, one exchange at a time, as SimplexTerminal of simplex_terminal.py*)
(* and as SimplexTerminal of test_script.py implement it.                  *)
(***************************************************************************)
\* The panel's answers to LOGIN: an I/O error, silence, the prompt, and the
\* prompt after an echo.
LoginReplies ==
    { IoError,
      Reply(<<>>),
      Reply(Prompt),
      Reply(CmdLOGIN \o <<"\r", "\n">> \o Prompt) }

\* test_script.py, lines 33-34 and 36-37: a write and a capture with no
\* handler around them; an I/O error propagates.
test_script_exchange(link) ==
    IF link.kind = "ioerror" THEN Raised("SerialException") ELSE Returned(link.text)

LoginCall(impl, p, link1, link2) ==
    [ name |-> "login",
      impl |-> impl,          \* "simplex_terminal" or "test_script"
      passcode |-> p,
      link1 |-> link1,
      link2 |-> link2,
      pc |-> "start",         \* "start", "passcode", "done", "raised"
      commands |-> <<>>,      \* commands sent so far, in order
      response |-> <<>>,      \* the local response
      success |-> FALSE,
      out |-> {} ]

LoginCalls ==
    UNION { { LoginCall(impl, p, link1, link2) :
                impl \in {"simplex_terminal", "test_script"},
                link1 \in LoginReplies, link2 \in PasscodeLinks(p) } :
            p \in Passcodes }

InitLogin ==
    /\ pc = "idle"
    /\ running = FALSE
    /\ current_states = <<>>
    /\ points = [k \in KnownKeys |-> None]
    /\ passcode = <<>>
    /\ points_data = <<>>
    /\ out = {}
    /\ iter = NoIteration
    /\ hist = NoHistory
    /\ facp = NoConnection
    /\ codec = NoCodec
    /\ call \in LoginCalls

\* simplex_terminal.py line 97; test_script.py lines 30-34.
LoginSendsLogin ==
    /\ call.name = "login"
    /\ call.pc = "start"
    /\ LET c == [call EXCEPT !.commands = <<CmdLOGIN>>]
       IN  call' =
             IF call.impl = "simplex_terminal"
             THEN [c EXCEPT !.pc = "passcode",
                            !.response = send_command(CmdLOGIN, call.link1).response]
             ELSE LET r == test_script_exchange(call.link1)
                  IN  IF r.exc # "none"
                      THEN [c EXCEPT !.pc = "raised"]
                      ELSE [c EXCEPT !.pc = "passcode", !.response = r.value]
    /\ UNCHANGED <<MonitorVars, facp, codec>>

\* simplex_terminal.py lines 100-105; test_script.py lines 36-38.
LoginSendsPasscode ==
    /\ call.name = "login"
    /\ call.pc = "passcode"
    /\ LET c == [call EXCEPT !.commands = Append(call.commands, call.passcode)]
       IN  call' =
             IF call.impl = "simplex_terminal"
             THEN LET r == login(call.passcode, call.link1, call.link2)
                  IN  [c EXCEPT !.pc = "done",
                                !.response = send_command(call.passcode, call.link2).response,
                                !.success = r.success,
                                !.out = r.out]
             ELSE LET r == test_script_exchange(call.link2)
                  IN  IF r.exc # "none"
                      THEN [c EXCEPT !.pc = "raised"]
                      ELSE [c EXCEPT !.pc = "done", !.response = r.value,
                                     !.success = IsSubstring(AccessGranted, r.value)]
    /\ UNCHANGED <<MonitorVars, facp, codec>>

NextLogin ==
    \/ LoginSendsLogin
    \/ LoginSendsPasscode

SpecLogin == InitLogin /\ [][NextLogin]_vars

(***************************************************************************)
(* PointStatus.from_clist_line applied to one row.                         *)
(***************************************************************************)
\* Point identifiers of each kind, one that is empty, and ones that hold a
\* kind's letter in lower case or past the first place.
PointIds ==
    { <<>>,
      <<"A", "1", "2">>,
      <<"P", "3">>,
      <<"M", "1", "-", "2">>,
      <<"Z", "N", "1">>,
      <<"a", "1">>,
      <<"1", "A">> }

\* Characters of a status column: the six state letters, a letter outside
\* the table, and the marks of the second and third place.
StatusChars == {"C", "T", "U", "F", "S", "P", "X", "1", "0", "-"}

Statuses == {<<a, b, c>> : a \in StatusChars, b \in StatusChars, c \in StatusChars}

InitPointStatus ==
    /\ pc = "idle"
    /\ running = FALSE
    /\ current_states = <<>>
    /\ points = [k \in KnownKeys |-> None]
    /\ passcode = <<>>
    /\ points_data = <<>>
    /\ out = {}
    /\ iter = NoIteration
    /\ hist = NoHistory
    /\ facp = NoConnection
    /\ codec = NoCodec
    /\ \E point_id \in PointIds, status \in Statuses :
           call = [ name |-> "from_clist_line",
                    point_id |-> point_id,
                    status |-> status,
                    done |-> FALSE,
                    result |-> Returned(None) ]

FromClistLine ==
    /\ call.name = "from_clist_line"
    /\ ~call.done
    /\ call' = [call EXCEPT !.done = TRUE,
                            !.result = from_clist_line(call.point_id, call.status)]
    /\ UNCHANGED <<MonitorVars, facp, codec>>

NextPointStatus == FromClistLine

SpecPointStatus == InitPointStatus /\ [][NextPointStatus]_vars

(***************************************************************************)
(* Properties.                                                             *)
(***************************************************************************)
LinkFailedKinds == {"ioerror", "nobytes"}

IterationEnded == iter.outcome # "none"

NoCleared(changes) == \A i \in DOMAIN changes : changes[i].change_type # "CLEARED"

\* The transition the diff owes for point k, or "SAME" when it owes none.
ExpectedKind(previous, current, k) ==
    IF k \notin Keys(previous) THEN "NEW"
    ELSE IF k \notin Keys(current) THEN "CLEARED"
    ELSE IF Lookup(current, k).status # Lookup(previous, k).status THEN "CHANGED"
    ELSE "SAME"

ExpectedIds(previous, current) ==
    { k \in Keys(previous) \cup Keys(current) : ExpectedKind(previous, current, k) # "SAME" }

IsExpected(change, previous, current, k) ==
    /\ change.change_type = ExpectedKind(previous, current, k)
    /\ change.previous_status = IF k \in Keys(previous) THEN Lookup(previous, k) ELSE None
    /\ change.new_status = IF k \in Keys(current) THEN Lookup(current, k) ELSE None

\* changes is the diff of (previous, current): one transition per point that
\* is owed one, of the owed kind, and nothing else.
IsExactDiff(changes, previous, current) ==
    /\ Len(changes) = Cardinality(ExpectedIds(previous, current))
    /\ \A k \in ExpectedIds(previous, current) :
           \E i \in DOMAIN changes : IsExpected(changes[i], previous, current, k)

SameSnapshot(previous, current) ==
    /\ Keys(previous) = Keys(current)
    /\ \A k \in Keys(previous) : Lookup(previous, k).status = Lookup(current, k).status

\* C1: when the link fails (I/O error or no bytes) during a status-list
\* query while a non-empty snapshot is held, the snapshot held after that
\* iteration is the pre-failure one, no CLEARED transition is produced, and
\* the next successful poll is diffed against the pre-failure snapshot.
C1_FailedQueryKeepsSnapshot ==
    /\ (iter.link \in LinkFailedKinds /\ iter.held # <<>> /\ IterationEnded)
           => /\ current_states = iter.held
              /\ NoCleared(iter.forwarded)
              /\ NoCleared(iter.detected.changes)
    /\ hist.failPending => current_states = hist.preFailure
    /\ (iter.before.failPending /\ iter.link = "reply" /\ iter.detected.called)
           => iter.detected.previous = iter.before.preFailure

\* A failed query with a snapshot held, a re-login, and the next successful
\* poll diffed.
C1_Witness ==
    /\ iter.before.failPending
    /\ iter.before.preFailure # <<>>
    /\ iter.link = "reply"
    /\ iter.detected.called
    /\ iter.detected.previous = iter.before.preFailure

\* C2: a link-level error during the status-list query aborts the poll
\* iteration (it does not run to its sleep: nothing is dispatched, the
\* snapshot is not assigned), and no status-list query is issued while a
\* link error has not been followed by a login attempt.
C2_LinkErrorAbortsAndRelogs ==
    /\ (iter.link \in LinkFailedKinds /\ IterationEnded) => iter.outcome = "raised"
    /\ iter.link # "none" => ~iter.before.errPending

\* C3: after an initial login that failed start_monitoring has returned and
\* has issued no query; every status-list query is issued with the latest
\* login attempt a successful one, and after a failed login of either kind
\* the loop is not running.
C3_NoQueryAfterFailedLogin ==
    /\ hist.lastLogin = "initial_failed" => pc = "returned" /\ ~hist.queried
    /\ iter.link # "none" => iter.before.lastLogin \in {"initial_ok", "recovery_ok"}
    /\ hist.lastLogin \in {"initial_failed", "recovery_failed"} => pc \notin Executing

\* A run that polled, failed its recovery login and returned.
C3_Witness ==
    /\ hist.lastLogin = "recovery_failed"
    /\ hist.queried
    /\ pc = "returned"

\* What C4 has in common with its amendment: an exception (class Exception)
\* of a poll iteration does not leave start_monitoring but leads to the
\* except clause, where exactly one login is attempted; a failed one ends
\* the loop, a successful one leads back to the loop test; the function
\* returns only after stop() or a failed login.
ExceptionsLeadToOneLogin ==
    /\ pc # "propagated"
    /\ iter.outcome = "raised" => pc \in {"handler", "interrupted"} /\ hist.relogins = 0
    /\ pc = "handler" => iter.outcome = "raised"
    /\ hist.relogins <= 1
    /\ hist.lastLogin \in {"recovery_ok", "recovery_failed"} /\ ~IterationEnded
           => hist.relogins = 1
    /\ hist.lastLogin = "recovery_failed" => pc = "returned"
    /\ pc = "returned" =>
           hist.lastLogin \in {"initial_failed", "recovery_failed"} \/ hist.stopRequested

\* C4 (as stated): no exception raised inside a poll iteration ever escapes
\* start_monitoring, exactly one login follows it, polling resumes iff the
\* login succeeds, and nothing but stop() and a failed login ends the loop.
C4_NothingElseExitsLoop ==
    /\ ExceptionsLeadToOneLogin
    /\ hist.interruptedAt \notin {"loop", "polled", "sleeping", "handler"}

\* C4 (amended): the same for exceptions of class Exception; a
\* KeyboardInterrupt is the one further way out of the loop, and it leaves
\* start_monitoring from the step at which it arrived.
C4_OnlyInterruptEscapes ==
    /\ ExceptionsLeadToOneLogin
    /\ pc = "interrupted" <=> hist.interruptedAt \in Executing
    /\ pc \notin {"returned", "interrupted"} =>
           \/ pc \in {"idle", "authenticating"}
           \/ hist.lastLogin \in {"initial_ok", "recovery_ok"}

\* An exception was caught, one login followed and succeeded, and the next
\* query has been issued.
C4_Witness ==
    /\ iter.before.lastLogin = "recovery_ok"
    /\ iter.before.relogins = 1
    /\ pc = "polled"

\* C5: once stop() has been called, at whatever moment of start_monitoring
\* (the initial login included), no further poll iteration starts: no
\* status-list query is issued with a stop request already made.
C5_NoPollAfterStop == iter.link # "none" => ~iter.before.stopRequested

\* C6: detect_changes returns, for every pair of snapshots, exactly one NEW
\* per point only in current, one CHANGED per point in both with differing
\* status codes, one CLEARED per point only in previous, and nothing else.
C6_DetectReturnsExactDiff ==
    iter.detected.called =>
        /\ iter.detected.exc = "none"
        /\ IsExactDiff(iter.detected.changes, iter.detected.previous, iter.detected.current)

\* C7: detect_changes with previous and current holding the same point ids
\* with the same status codes returns an empty list.
C7_DetectSameIsEmpty ==
    (iter.detected.called /\ SameSnapshot(iter.detected.previous, iter.detected.current))
        => iter.detected.exc = "none" /\ iter.detected.changes = <<>>

\* detect_changes has run on a non-empty snapshot and its like.
C7_Witness ==
    /\ iter.detected.called
    /\ iter.detected.previous # <<>>
    /\ SameSnapshot(iter.detected.previous, iter.detected.current)
    /\ iter.outcome = "completed"

\* C8: a poll whose query succeeded (a reply whose rows all make point
\* records) forwards exactly the diff between the snapshot held before it
\* and the snapshot of its rows, and leaves that snapshot held.
C8_ForwardedIsDiffOfPolls ==
    (iter.link = "reply" /\ IterationEnded /\ BuildStates(points_data, <<>>).exc = "none")
        => /\ iter.outcome = "completed"
           /\ IsExactDiff(iter.forwarded, iter.held, BuildStates(points_data, <<>>).value)
           /\ current_states = BuildStates(points_data, <<>>).value

\* C9: no log record and no console line contains the passcode.
C9_PasscodeNeverEmitted == \A m \in out : ~IsSubstring(passcode, m.text)

\* C10: whatever the panel replies to the status-list query, no row of the
\* reply ends the iteration: making the point records raises nothing.
C10_RowsNeverAbortIteration ==
    (iter.link = "reply" /\ IterationEnded) => iter.exc # "IndexError"

OwedKinds(previous, current) ==
    { ExpectedKind(previous, current, k) : k \in ExpectedIds(previous, current) }

NewChangedBeforeCleared(changes) ==
    \A i, j \in DOMAIN changes :
        (changes[i].change_type = "CLEARED" /\ changes[j].change_type \in {"NEW", "CHANGED"})
            => j < i

Reverse(s) == [i \in 1..Len(s) |-> s[Len(s) + 1 - i]]

\* C12: a call of detect_changes that owes transitions returns them, and
\* returns the same sequence as the call on the same two mappings with their
\* rows listed in the opposite order.
C12_ResultIndependentOfRowOrder ==
    ( /\ iter.detected.called
      /\ ExpectedIds(iter.detected.previous, iter.detected.current) # {} )
        => /\ iter.detected.exc = "none"
           /\ iter.detected.changes # <<>>
           /\ iter.detected.changes =
                  detect_changes(Reverse(iter.detected.previous),
                                 Reverse(iter.detected.current), points).changes

\* C13: detect_changes changes no state outside its return value: the
\* per-point records of the points manager are as load_points_file left
\* them.
C13_DetectLeavesPointRecords == \A k \in KnownKeys : points[k] = None

WellFormedChange(change) ==
    CASE change.change_type = "NEW" ->
             change.previous_status = None /\ change.new_status # None
      [] change.change_type = "CLEARED" ->
             change.new_status = None /\ change.previous_status # None
      [] change.change_type = "CHANGED" ->
             /\ change.previous_status # None
             /\ change.new_status # None
             /\ change.previous_status.point_id = change.new_status.point_id
             /\ change.previous_status.status # change.new_status.status
      [] OTHER -> FALSE

C15_SnapshotOnlyAssignedWhole ==
    /\ [](iter.link # "none" =>
             current_states = IF iter.outcome = "completed"
                              THEN BuildStates(points_data, <<>>).value
                              ELSE iter.held)
    /\ [][current_states' # current_states =>
             /\ pc = "polled"
             /\ iter'.outcome = "completed"
             /\ current_states' = BuildStates(points_data, <<>>).value]_vars

\* An iteration completed and left the newly built snapshot held in place
\* of a non-empty one (the same points, listed in another order).
C15_Witness ==
    /\ iter.outcome = "completed"
    /\ iter.held # <<>>
    /\ current_states # iter.held
    /\ current_states = BuildStates(points_data, <<>>).value

\* C16: the checksum computed over a byte sequence validates against it,
\* and after the inversion of one bit of the sequence or of one bit of the
\* two checksum bytes validation fails.
C16_ChecksumDetectsSingleBit ==
    codec.valid # "unknown" => (codec.valid = "yes" <=> codec.flipped = "none")

\* A bit was inverted in a sequence whose sum passes 4095, and validation
\* failed.
C16_Witness ==
    /\ codec.flipped = "data"
    /\ Len(codec.data) = 17
    /\ codec.valid = "no"

\* The last two bytes of a frame, and the checksum of its sequence byte,
\* body and END byte.
FrameChecksum(frame) == SubSeq(frame, Len(frame) - 1, Len(frame))
ChecksumThroughEnd(frame) == _calculate_checksum(SubSeq(frame, 2, Len(frame) - 2))

\* C17: the checksum of every frame send_command writes is the checksum of
\* its sequence byte, body bytes and END byte, and every frame read_response
\* accepts carries the checksum of that same span.
C17_ChecksumCoversEnd ==
    /\ (facp.op.name = "send" /\ facp.op.written # <<>>)
           => FrameChecksum(facp.op.written) = ChecksumThroughEnd(facp.op.written)
    /\ (facp.op.name = "read" /\ facp.op.response # <<>>)
           => FrameChecksum(facp.op.response) = ChecksumThroughEnd(facp.op.response)

HasEnd(text) == \E i \in DOMAIN text : text[i] = END

C19_SequenceAdvancesOnSendOnly ==
    /\ facp.op.name # "none" => facp.sequence_number \in 64..127
    /\ facp.op.name = "send" =>
           facp.sequence_number = IF facp.op.before = 127 THEN 64 ELSE facp.op.before + 1
    /\ facp.op.name = "read" => facp.sequence_number = facp.op.before

\* A send that was not acknowledged took the counter from 0x7F to 0x40.
C19_Witness ==
    /\ facp.op.name = "send"
    /\ facp.op.exc = "CommunicationError"
    /\ facp.op.before = 127
    /\ facp.sequence_number = 64

\* C20: read_response writes the ACK byte exactly when it returns a body:
\* a call that raises has written nothing, a call that returns has written
\* one ACK.
C20_AckIffBodyReturned ==
    facp.op.name = "read" =>
        /\ facp.op.exc = "none" <=> facp.op.written = <<ACK>>
        /\ facp.op.exc # "none" => facp.op.written = <<>>

\* C21: every call of read_response terminates, returning a body or raising,
\* whatever the peer delivers.
C21_ReadResponseTerminates == <>(call.pc = "done")

\* C22: in _read_response every received character moves the idle deadline
\* to the time of its receipt plus the timeout, so a capture that has
\* received characters ends by the deadline only a full timeout after the
\* last of them.
C22_EveryCharacterResetsDeadline ==
    (call.name = "send_command" /\ Len(call.response) > 0) =>
        /\ call.end_time = call.last_read + Timeout
        /\ call.ended = "deadline" => call.now - call.last_read >= Timeout

\* C23: send_command never raises: whatever the panel and the port do it
\* returns a string; it clears the input buffer first, writes the command
\* and a carriage return second, and reads only after that.
C23_SendCommandNeverFails ==
    call.name = "send_command" =>
        /\ call.pc # "raised"
        /\ call.pc = "done" =>
               /\ call.value \in Seq({"\n", "-", "A"})
               /\ call.ended = "error" => call.value = <<>>
        /\ \A i \in DOMAIN call.trace :
               /\ call.trace[i] = "reset_input_buffer" <=> i = 1
               /\ call.trace[i] = "write" <=> i = 2
        /\ call.written # <<>> =>
               /\ Len(call.trace) >= 2
               /\ call.written = <<67, 76, 73, 83, 84, 13>>

C23_Witness ==
    /\ call.name = "send_command"
    /\ call.pc = "done"
    /\ call.ended = "error"
    /\ Len(call.trace) = 3
    /\ call.trace[3] = "read"

\* C24: login sends LOGIN first and the passcode second and returns true
\* exactly when the response captured after the passcode holds ACCESS
\* GRANTED; a failure of either exchange makes it return false, and it
\* never raises.
C24_LoginTrueIffGrantedNeverRaises ==
    call.name = "login" =>
        /\ call.pc # "raised"
        /\ \A i \in DOMAIN call.commands :
               call.commands[i] = <<CmdLOGIN, call.passcode>>[i]
        /\ call.pc = "done" =>
               /\ call.commands = <<CmdLOGIN, call.passcode>>
               /\ call.success <=> IsSubstring(AccessGranted, call.response)
               /\ (LinkFailed(call.link1) \/ LinkFailed(call.link2)) => ~call.success

\* C25: in every frame send builds, the sequence byte and the two checksum
\* bytes lie in 0x40..0x7F, so none of them is BEGIN, END or ACK; the
\* checksum bytes carry, high six bits first and each offset by 0x40, the
\* 12-bit one's complement of the sum modulo 4096 of the bytes between BEGIN
\* and END.
C25_FrameBytesInPrintableRange ==
    (facp.op.name = "send" /\ facp.op.written # <<>>) =>
        LET message == facp.op.written
            n == Len(message)
            sequence == message[2]
            msb == message[n - 1]
            lsb == message[n]
            sum == Sum(SubSeq(message, 2, n - 3)) % 4096
        IN  /\ {sequence, msb, lsb} \subseteq 64..127
            /\ {sequence, msb, lsb} \cap {BEGIN, END, ACK} = {}
            /\ (msb - 64) * 64 + (lsb - 64) = 4095 - sum

C25_Witness ==
    /\ facp.op.name = "send"
    /\ Len(facp.op.input) = MaxBody
    /\ facp.op.written # <<>>
    /\ facp.op.written[2] = 127

\* C26: for every point_id and every status of three characters,
\* from_clist_line takes point_type from the first character of point_id
\* (A Analog, P Digital, M Mapnet, anything else Physical), state_type from
\* the first character of status (C Control, T Trouble, U Utility, F Fire,
\* S Supervisory, P Priority2, anything else Unknown), is_active from the
\* second character being '1' and is_acknowledged from the third being '-'.
C26_FieldsDerivedFromCharacters ==
    (call.name = "from_clist_line" /\ call.done) =>
        LET r == call.result.value
            first == IF Len(call.point_id) > 0 THEN call.point_id[1] ELSE ""
            table == { <<"C", "Control">>, <<"T", "Trouble">>, <<"U", "Utility">>,
                       <<"F", "Fire">>, <<"S", "Supervisory">>, <<"P", "Priority2">> }
        IN  /\ call.result.exc = "none"
            /\ r.point_id = call.point_id
            /\ r.status = call.status
            /\ first = "A" <=> r.point_type = "Analog"
            /\ first = "P" <=> r.point_type = "Digital"
            /\ first = "M" <=> r.point_type = "Mapnet"
            /\ first \notin {"A", "P", "M"} <=> r.point_type = "Physical"
            /\ \A pair \in table : call.status[1] = pair[1] <=> r.state_type = pair[2]
            /\ (\A pair \in table : call.status[1] # pair[1]) <=> r.state_type = "Unknown"
            /\ r.is_active <=> call.status[2] = "1"
            /\ r.is_acknowledged <=> call.status[3] = "-"

C26_Witness ==
    /\ call.name = "from_clist_line"
    /\ call.done
    /\ call.point_id = <<"M", "1", "-", "2">>
    /\ call.status = <<"P", "1", "-">>
    /\ call.result.value.state_type = "Priority2"

\* C27: two consecutive status-list queries are separated by exactly one
\* inter-poll sleep and no login when the iteration of the first completed,
\* and by exactly one successful login and no sleep when it raised: never
\* both, never neither.
C27_OneSleepOrOneLoginBetweenQueries ==
    [][(pc = "loop" /\ pc' = "polled" /\ hist.queried) =>
          /\ hist.sleeps + hist.logins = 1
          /\ hist.outcome = "completed" => (hist.sleeps = 1 /\ hist.logins = 0)
          /\ hist.outcome = "raised" => (hist.sleeps = 0 /\ hist.logins = 1)
          /\ hist.outcome \in {"completed", "raised"}]_vars

C27_Witness ==
    /\ pc = "polled"
    /\ iter.before.queried
    /\ iter.before.outcome = "raised"
    /\ iter.before.logins = 1

=============================================================================
